---- MODULE Spec2Model ----
(***************************************************************************)
(* Excel-Sheet-Merger (src/App.tsx): the merge engine, the header unifier, *)
(* the export adapter, the preview cell rendering and the App component's  *)
(* state with its event handlers and its asynchronous reads.               *)
(*                                                                         *)
(* A JavaScript object is a sequence of <<key, value>> pairs in            *)
(* Object.keys order: integer-like keys first in ascending numeric order,  *)
(* then the other keys in insertion order.  A value is a tagged tuple.     *)
(***************************************************************************)
EXTENDS Integers, Sequences, FiniteSets, TLC

VARIABLES
    \* React state of App (src/App.tsx:237-242)
    mergeMode, files, singleFileSheets, mergedData, isLoading, error,
    \* the handleMerge invocation in flight: position, captured arguments,
    \* loop index and accumulator of processMultipleFiles/processSheetsInFile,
    \* and the indices of the files whose arrayBuffer() read was started
    mpc, pMode, pFiles, pSel, pIdx, allRows, reads,
    \* the extractSheetNames invocation in flight
    xpc, xFile,
    \* observers of the run: the last step taken, whether the table was
    \* non-null when the running merge cleared it, whether handleModeChange
    \* ran since the last merge was started
    last, hadTable, modeChanged,
    \* direct invocations of the pure parts (specification SpecFn)
    fn, fnpc, argRows, argWb, argSel, argFiles, table, exported, out

appVars == <<mergeMode, files, singleFileSheets, mergedData, isLoading, error,
             mpc, pMode, pFiles, pSel, pIdx, allRows, reads, xpc, xFile,
             last, hadTable, modeChanged>>
fnVars == <<fn, fnpc, argRows, argWb, argSel, argFiles, table, exported, out>>
vars == <<appVars, fnVars>>

----------------------------------------------------------------------------
(* Bounds *)

MaxFiles == 3
\* (files in one selection)
MaxSel == 3
\* (length of a selectedSheetNames argument)
MaxHdrRows == 2
\* (rows given to getHeadersFromData)
MaxRowKeys == 2
\* (keys of one such row)
MaxLiveFiles == 2
\* (files in one selection, where progress is checked)

----------------------------------------------------------------------------
(* Values and JavaScript objects *)

NULL == <<"null">>
UNDEFINED == <<"undefined">>
Num(n) == <<"num", n>>
Str(s) == <<"str", s>>

\* The strings of the source are written here without their diacritics.
SOURCE_COLUMN_NAME == "TEN NGUON"

\* Integer-like property names and their numeric value.
IndexKeys == {"1", "2"}
IndexOf(k) == IF k = "1" THEN 1 ELSE 2

Keys(o) == [i \in 1..Len(o) |-> o[i][1]]
KeySet(o) == {o[i][1] : i \in 1..Len(o)}
HasKey(o, k) == k \in KeySet(o)

\* o[k]: undefined for a missing key.
Get(o, k) ==
    IF HasKey(o, k)
    THEN LET i == CHOOSE j \in 1..Len(o) : o[j][1] = k IN o[i][2]
    ELSE UNDEFINED

\* Where a new key lands in Object.keys order.
InsertPos(o, k) ==
    IF k \in IndexKeys
    THEN Cardinality({j \in 1..Len(o) :
                        o[j][1] \in IndexKeys /\ IndexOf(o[j][1]) < IndexOf(k)}) + 1
    ELSE Len(o) + 1

\* o[k] = v
Put(o, k, v) ==
    IF HasKey(o, k)
    THEN [i \in 1..Len(o) |-> IF o[i][1] = k THEN <<k, v>> ELSE o[i]]
    ELSE LET p == InsertPos(o, k)
         IN SubSeq(o, 1, p - 1) \o << <<k, v>> >> \o SubSeq(o, p, Len(o))

\* { ...target, ...src }: src's own properties assigned in Object.keys order.
RECURSIVE Spread(_, _)
Spread(target, src) ==
    IF src = <<>> THEN target
    ELSE Spread(Put(target, Head(src)[1], Head(src)[2]), Tail(src))

\* Sequences over S of length at most n.
SeqsUpTo(S, n) == UNION {[1..m -> S] : m \in 0..n}

----------------------------------------------------------------------------
(* Files as the codec decodes them.  A workbook is its sheets in SheetNames *)
(* order, each with the rows sheet_to_json(worksheet, {defval: null})       *)
(* yields for it.                                                           *)

Sheet(name, rows) == [name |-> name, rows |-> rows]
File(name, sheets) == [name |-> name, sheets |-> sheets]

SheetNamesOf(wb) == [i \in 1..Len(wb) |-> wb[i].name]
\* workbook.Sheets[sheetName] is defined
HasSheet(wb, sheetName) == \E i \in 1..Len(wb) : wb[i].name = sheetName
\* XLSX.utils.sheet_to_json(workbook.Sheets[sheetName], { defval: null })
SheetToJson(wb, sheetName) ==
    LET i == CHOOSE j \in 1..Len(wb) : wb[j].name = sheetName IN wb[i].rows

F1 == File("f1.xlsx",
        << Sheet("Jan", << << <<"A", Num(1)>>, <<"B", Num(2)>> >> >>),
           Sheet("Feb", <<>>),
           Sheet("Mar", << << <<"1", Num(6)>>, <<"B", Num(5)>> >>,
                           << <<"1", Num(8)>>, <<"B", NULL>> >> >>) >>)
F2 == File("tagged.xlsx",
        << Sheet("Data", << << <<SOURCE_COLUMN_NAME, Str("Jan")>>, <<"A", Num(1)>> >>,
                            << <<SOURCE_COLUMN_NAME, NULL>>, <<"A", Num(2)>> >> >>) >>)
F3 == File("empty.xlsx", << Sheet("Sheet1", <<>>) >>)
F4 == File("nosheets.xlsx", <<>>)

Catalogue == {F1, F2, F3, F4}
NoFile == File("", <<>>)

----------------------------------------------------------------------------
(* The merge engine *)

\* { [SOURCE_COLUMN_NAME]: sheetName, ...row }
TagRow(sheetName, row) ==
    Spread(<< <<SOURCE_COLUMN_NAME, Str(sheetName)>> >>, row)

\* A sheet that drops its last row.
PushSheetDropLast(sheetName, jsonData) ==
    IF Len(jsonData) > 0
    THEN [i \in 1..(Len(jsonData) - 1) |-> TagRow(sheetName, jsonData[i])]
    ELSE <<>>

\* if (jsonData.length > 0) jsonData.forEach(row => allRows.push({...}))
PushSheet(sheetName, jsonData) ==
    IF Len(jsonData) > 0
    THEN [i \in 1..Len(jsonData) |-> TagRow(sheetName, jsonData[i])]
    ELSE <<>>

\* for (const sheetName of workbook.SheetNames) { ... }
RECURSIVE WorkbookRows(_, _)
WorkbookRows(wb, names) ==
    IF names = <<>> THEN <<>>
    ELSE PushSheet(Head(names), SheetToJson(wb, Head(names)))
            \o WorkbookRows(wb, Tail(names))

\* The loop over the file's own sheet order instead of the given names.
SelectedRowsNativeOrder(wb, selectedSheetNames) ==
    WorkbookRows(wb, SelectSeq(SheetNamesOf(wb),
        LAMBDA n : \E i \in 1..Len(selectedSheetNames) : selectedSheetNames[i] = n))

\* for (const sheetName of selectedSheetNames) { if (!worksheet) continue; ... }
RECURSIVE SelectedRows(_, _)
SelectedRows(wb, selectedSheetNames) ==
    IF selectedSheetNames = <<>> THEN <<>>
    ELSE (IF HasSheet(wb, Head(selectedSheetNames))
          THEN PushSheet(Head(selectedSheetNames),
                         SheetToJson(wb, Head(selectedSheetNames)))
          ELSE <<>>)
            \o SelectedRows(wb, Tail(selectedSheetNames))

\* processMultipleFiles when every read and decode succeeds.
RECURSIVE ProcessFilesOk(_)
ProcessFilesOk(fs) ==
    IF fs = <<>> THEN <<>>
    ELSE WorkbookRows(Head(fs).sheets, SheetNamesOf(Head(fs).sheets))
            \o ProcessFilesOk(Tail(fs))

----------------------------------------------------------------------------
(* The header unifier *)

\* key => headerSet.add(key), over the keys of one row
RECURSIVE AddKeys(_, _)
AddKeys(headerSet, keys) ==
    IF keys = <<>> THEN headerSet
    ELSE AddKeys(IF \E i \in 1..Len(headerSet) : headerSet[i] = Head(keys)
                 THEN headerSet
                 ELSE Append(headerSet, Head(keys)),
                 Tail(keys))

\* data.forEach(row => Object.keys(row).forEach(key => headerSet.add(key)))
RECURSIVE CollectHeaders(_, _)
CollectHeaders(headerSet, data) ==
    IF data = <<>> THEN headerSet
    ELSE CollectHeaders(AddKeys(headerSet, Keys(Head(data))), Tail(data))

\* The headers left in their first-seen order.
HeadersFirstSeen(data) == CollectHeaders(<<>>, data)

getHeadersFromData(data) ==
    IF Len(data) = 0 THEN <<>>
    ELSE LET headers == CollectHeaders(<<>>, data)
         IN IF \E i \in 1..Len(headers) : headers[i] = SOURCE_COLUMN_NAME
            THEN <<SOURCE_COLUMN_NAME>>
                    \o SelectSeq(headers, LAMBDA h : h # SOURCE_COLUMN_NAME)
            ELSE headers

----------------------------------------------------------------------------
(* The export adapter *)

\* One row of the sheet json_to_sheet(data) writes, as sheet_to_json with
\* { defval: null } reads it back: a value for every column of the sheet.
RECURSIVE SheetRow(_, _, _)
SheetRow(acc, hdr, row) ==
    IF hdr = <<>> THEN acc
    ELSE SheetRow(Put(acc, Head(hdr),
                      IF HasKey(row, Head(hdr)) THEN Get(row, Head(hdr)) ELSE NULL),
                  Tail(hdr), row)

\* XLSX.utils.json_to_sheet(data): the columns are the keys in first-seen order.
JsonToSheet(data) ==
    LET hdr == CollectHeaders(<<>>, data)
    IN [i \in 1..Len(data) |-> SheetRow(<<>>, hdr, data[i])]

\* The file XLSX.writeFile leaves: one sheet, 'MergedData'.
exportToExcel(data, fileName) ==
    File(fileName \o ".xlsx", << Sheet("MergedData", JsonToSheet(data)) >>)

----------------------------------------------------------------------------
(* The preview *)

PreviewRows == 100

\* String(value)
String(v) ==
    IF v[1] = "num" THEN ToString(v[2])
    ELSE IF v[1] = "str" THEN v[2]
    ELSE v[1]

\* row[header] === null ? '' : String(row[header])
Cell(row, header) ==
    IF Get(row, header) = NULL THEN "" ELSE String(Get(row, header))

\* data.slice(0, 100).map(row => headers.map(header => ...))
DataTable(data, headers) ==
    [r \in 1..(IF Len(data) < PreviewRows THEN Len(data) ELSE PreviewRows) |->
        [c \in 1..Len(headers) |-> Cell(data[r], headers[c])]]

----------------------------------------------------------------------------
(* The App component: state *)

NoTable == [null |-> TRUE, rows |-> <<>>]
Table(rows) == [null |-> FALSE, rows |-> rows]

NoError == <<"null">>
Msg(text) == <<"msg", text>>

ErrEmptySelection == Msg("Vui long chon it nhat mot sheet de gop.")
ErrEmptyResult == Msg("Khong tim thay du lieu trong cac file/sheet da chon.")
ErrUnreadable == Msg("Khong the doc duoc file. Vui long kiem tra lai file co bi loi khong.")

\* The message naming the first file of the batch.
FirstFileError(fs, i) == Msg("Khong the xu ly file: " \o fs[1].name)

\* throw new Error(`Khong the xu ly file: ${file.name}`), as handleMerge shows it
FileError(fs, i) == Msg("Khong the xu ly file: " \o fs[i].name)

\* singleFileSheets.filter(s => s.selected).map(s => s.name)
SelectedSheets(sheets) ==
    LET sel == SelectSeq(sheets, LAMBDA s : s.selected)
    IN [i \in 1..Len(sel) |-> sel[i].name]

\* A check that never finds the selection empty.
NoSheetSelectedNever(selectedSheets) == FALSE

\* selectedSheets.length === 0
NoSheetSelected(selectedSheets) == Len(selectedSheets) = 0

\* The previous table kept until the merge succeeds.
KeepTable(data) == data

\* setMergedData(null) at the start of handleMerge
ClearTable(data) == NoTable

isMergeDisabled ==
    \/ Len(files) = 0
    \/ isLoading
    \/ /\ mergeMode = "sheets"
       /\ Len(singleFileSheets) > 0
       /\ ~ \E i \in 1..Len(singleFileSheets) : singleFileSheets[i].selected

FnIdle ==
    /\ fn = "none" /\ fnpc = "idle" /\ argRows = <<>> /\ argWb = <<>>
    /\ argSel = <<>> /\ argFiles = <<>> /\ table = <<>>
    /\ exported = NoFile /\ out = <<>>

AppInit ==
    /\ mergeMode = "files"
    /\ files = <<>>
    /\ singleFileSheets = <<>>
    /\ mergedData = NoTable
    /\ isLoading = FALSE
    /\ error = NoError
    /\ mpc = "idle" /\ pMode = "files" /\ pFiles = <<>> /\ pSel = <<>>
    /\ pIdx = 0 /\ allRows = <<>> /\ reads = <<>>
    /\ xpc = "idle" /\ xFile = NoFile
    /\ last = "init" /\ hadTable = FALSE /\ modeChanged = FALSE

Init == AppInit /\ FnIdle

mergeVars == <<mpc, pMode, pFiles, pSel, pIdx, allRows, reads>>

----------------------------------------------------------------------------
(* The App component: event handlers *)

\* handleModeChange: setMergeMode(mode); resetState()
handleModeChange(mode) ==
    /\ mergeMode' = mode
    /\ files' = <<>>
    /\ singleFileSheets' = <<>>
    /\ mergedData' = NoTable
    /\ error' = NoError
    /\ modeChanged' = TRUE
    /\ last' = "handleModeChange"
    /\ UNCHANGED <<isLoading, mergeVars, xpc, xFile, hadTable, fnVars>>

\* handleFilesSelected, reached through the uploader only while it is not
\* disabled and only with at least one file; in 'sheets' mode it goes on
\* into extractSheetNames up to its await.
handleFilesSelected(selectedFiles) ==
    /\ ~isLoading
    /\ Len(selectedFiles) > 0
    /\ mergedData' = NoTable
    /\ error' = NoError
    /\ IF mergeMode = "sheets"
       THEN /\ files' = <<selectedFiles[1]>>
            /\ isLoading' = TRUE
            /\ xpc' = "reading"
            /\ xFile' = selectedFiles[1]
       ELSE /\ files' = selectedFiles
            /\ UNCHANGED <<isLoading, xpc, xFile>>
    /\ last' = "handleFilesSelected"
    /\ UNCHANGED <<mergeMode, singleFileSheets, mergeVars, hadTable, modeChanged, fnVars>>

\* The sheet list is rendered in 'sheets' mode when it is not empty.
SheetListShown == mergeMode = "sheets" /\ Len(singleFileSheets) > 0

handleSheetSelectionChange(sheetName, isSelected) ==
    /\ SheetListShown
    /\ \E i \in 1..Len(singleFileSheets) : singleFileSheets[i].name = sheetName
    /\ singleFileSheets' =
          [i \in 1..Len(singleFileSheets) |->
              IF singleFileSheets[i].name = sheetName
              THEN [singleFileSheets[i] EXCEPT !.selected = isSelected]
              ELSE singleFileSheets[i]]
    /\ last' = "handleSheetSelectionChange"
    /\ UNCHANGED <<mergeMode, files, mergedData, isLoading, error, mergeVars,
                   xpc, xFile, hadTable, modeChanged, fnVars>>

toggleAllSheets(select) ==
    /\ SheetListShown
    /\ singleFileSheets' =
          [i \in 1..Len(singleFileSheets) |->
              [singleFileSheets[i] EXCEPT !.selected = select]]
    /\ last' = "toggleAllSheets"
    /\ UNCHANGED <<mergeMode, files, mergedData, isLoading, error, mergeVars,
                   xpc, xFile, hadTable, modeChanged, fnVars>>

----------------------------------------------------------------------------
(* The App component: handleMerge and the reads it waits for *)

\* handleMerge from its entry to the first await of the function it calls
\* (the arrayBuffer() read of the first file), or to its early return.
StartMerge(fs, selectedSheets) ==
    /\ isLoading' = TRUE
    /\ error' = NoError
    /\ mergedData' = ClearTable(mergedData)
    /\ mpc' = "reading"
    /\ pMode' = mergeMode
    /\ pFiles' = fs
    /\ pSel' = selectedSheets
    /\ pIdx' = 1
    /\ allRows' = <<>>
    /\ reads' = <<1>>
    /\ last' = "mergeStart"

handleMerge ==
    /\ ~isMergeDisabled
    /\ hadTable' = ~mergedData.null
    /\ modeChanged' = FALSE
    /\ IF mergeMode = "files"
       THEN StartMerge(files, <<>>)
       ELSE LET selectedSheets == SelectedSheets(singleFileSheets)
            IN IF NoSheetSelected(selectedSheets)
               THEN /\ error' = ErrEmptySelection
                    /\ isLoading' = FALSE
                    /\ mergedData' = ClearTable(mergedData)
                    /\ last' = "mergeEmptySelection"
                    /\ UNCHANGED mergeVars
               ELSE StartMerge(<<files[1]>>, selectedSheets)
    /\ UNCHANGED <<mergeMode, files, singleFileSheets, xpc, xFile, fnVars>>

\* The invocation is over: its arguments and locals are gone.
Return ==
    /\ mpc' = "idle"
    /\ pMode' = "files" /\ pFiles' = <<>> /\ pSel' = <<>>
    /\ pIdx' = 0 /\ allRows' = <<>> /\ reads' = <<>>

\* The rest of handleMerge once the called function has returned `data`.
FinishMerge(data) ==
    /\ IF Len(data) = 0
       THEN /\ error' = ErrEmptyResult
            /\ UNCHANGED mergedData
            /\ last' = "mergeEmpty"
       ELSE /\ mergedData' = Table(data)
            /\ UNCHANGED error
            /\ last' = "mergeOk"
    /\ isLoading' = FALSE
    /\ Return

\* The read of file pIdx resolves and XLSX.read decodes it: the function
\* runs on to its next await or to its return, and handleMerge with it.
MergeReadOk ==
    /\ mpc = "reading"
    /\ LET wb == pFiles[pIdx].sheets
       IN IF pMode = "files"
          THEN LET rows == allRows \o WorkbookRows(wb, SheetNamesOf(wb))
               IN IF pIdx < Len(pFiles)
                  THEN /\ allRows' = rows
                       /\ pIdx' = pIdx + 1
                       /\ reads' = Append(reads, pIdx + 1)
                       /\ last' = "mergeNext"
                       /\ UNCHANGED <<mergedData, isLoading, error, mpc,
                                      pMode, pFiles, pSel>>
                  ELSE FinishMerge(rows)
          ELSE FinishMerge(allRows \o SelectedRows(wb, pSel))
    /\ UNCHANGED <<mergeMode, files, singleFileSheets,
                   xpc, xFile, hadTable, modeChanged, fnVars>>

\* The failing path with setIsLoading(false) left out of it (as if it ended
\* the try block instead of standing in a finally).
MergeReadFailsKeepsLoading ==
    /\ mpc = "reading"
    /\ error' = FileError(pFiles, pIdx)
    /\ Return
    /\ last' = "mergeFailed"
    /\ UNCHANGED <<mergeMode, files, singleFileSheets, mergedData, isLoading,
                   xpc, xFile, hadTable, modeChanged, fnVars>>

\* The read of file pIdx rejects, or XLSX.read throws: the catch of the
\* called function, then the catch and finally of handleMerge.
MergeReadFails ==
    /\ mpc = "reading"
    /\ error' = FileError(pFiles, pIdx)
    /\ isLoading' = FALSE
    /\ Return
    /\ last' = "mergeFailed"
    /\ UNCHANGED <<mergeMode, files, singleFileSheets, mergedData,
                   xpc, xFile, hadTable, modeChanged, fnVars>>

----------------------------------------------------------------------------
(* The App component: extractSheetNames after its await *)

ExtractOk ==
    /\ xpc = "reading"
    /\ singleFileSheets' =
          [i \in 1..Len(xFile.sheets) |->
              [name |-> xFile.sheets[i].name, selected |-> TRUE]]
    /\ isLoading' = FALSE
    /\ xpc' = "idle"
    /\ xFile' = NoFile
    /\ last' = "extractOk"
    /\ UNCHANGED <<mergeMode, files, mergedData, error, mergeVars,
                   hadTable, modeChanged, fnVars>>

ExtractFails ==
    /\ xpc = "reading"
    /\ error' = ErrUnreadable
    /\ files' = <<>>
    /\ isLoading' = FALSE
    /\ xpc' = "idle"
    /\ xFile' = NoFile
    /\ last' = "extractFailed"
    /\ UNCHANGED <<mergeMode, singleFileSheets, mergedData, mergeVars,
                   hadTable, modeChanged, fnVars>>

----------------------------------------------------------------------------
(* The session *)

Selections == SeqsUpTo(Catalogue, MaxFiles) \ {<<>>}
SheetNameUniverse == {"Jan", "Feb", "Mar", "Sheet1", "Data", "Nope"}

Next ==
    \/ \E mode \in {"files", "sheets"} : handleModeChange(mode)
    \/ \E selectedFiles \in Selections : handleFilesSelected(selectedFiles)
    \/ \E sheetName \in SheetNameUniverse, isSelected \in BOOLEAN :
          handleSheetSelectionChange(sheetName, isSelected)
    \/ \E select \in BOOLEAN : toggleAllSheets(select)
    \/ handleMerge
    \/ MergeReadOk
    \/ MergeReadFails
    \/ ExtractOk
    \/ ExtractFails

Spec == Init /\ [][Next]_vars

\* Every read that was started settles: file.arrayBuffer() resolves or
\* rejects, and the decode that follows it returns or throws.
LiveSelections == SeqsUpTo(Catalogue, MaxLiveFiles) \ {<<>>}

NextLive ==
    \/ \E mode \in {"files", "sheets"} : handleModeChange(mode)
    \/ \E selectedFiles \in LiveSelections : handleFilesSelected(selectedFiles)
    \/ \E sheetName \in SheetNameUniverse, isSelected \in BOOLEAN :
          handleSheetSelectionChange(sheetName, isSelected)
    \/ \E select \in BOOLEAN : toggleAllSheets(select)
    \/ handleMerge
    \/ MergeReadOk
    \/ MergeReadFails
    \/ ExtractOk
    \/ ExtractFails

FairSpec ==
    /\ Init /\ [][NextLive]_vars
    /\ WF_vars(MergeReadOk \/ MergeReadFails)
    /\ WF_vars(ExtractOk \/ ExtractFails)

----------------------------------------------------------------------------
(* Properties of the merge engine as handleMerge runs it *)

\* The step on which the called function returns its rows to handleMerge,
\* and the rows it returns (handleMerge stores them unless there are none).
MergeReturns == mpc = "reading" /\ last' \in {"mergeOk", "mergeEmpty"}
ReturnedRows == IF last' = "mergeOk" THEN mergedData'.rows ELSE <<>>

\* The step on which the read or the decode of file pIdx fails.
MergeFails == mpc = "reading" /\ last' = "mergeFailed"

\* The source rows of a batch of files, as <<file, sheet, row>> positions,
\* and the place of each in (file order) x (sheet order) x (row order).
Positions(fs) ==
    UNION {UNION {{<<f, s, r>> : r \in 1..Len(fs[f].sheets[s].rows)} :
                    s \in 1..Len(fs[f].sheets)} :
             f \in 1..Len(fs)}
Before(u, t) ==
    \/ u[1] < t[1]
    \/ u[1] = t[1] /\ u[2] < t[2]
    \/ u[1] = t[1] /\ u[2] = t[2] /\ u[3] < t[3]
Place(t, fs) == Cardinality({u \in Positions(fs) : Before(u, t)}) + 1

\* The same for the selected sheets of one workbook, as <<selection index,
\* row>> positions; a name the workbook does not have has no rows.
SelRows(wb, sheetName) ==
    IF \E i \in 1..Len(wb) : wb[i].name = sheetName
    THEN (wb[CHOOSE i \in 1..Len(wb) : wb[i].name = sheetName]).rows
    ELSE <<>>
SelPositions(wb, sel) ==
    UNION {{<<j, r>> : r \in 1..Len(SelRows(wb, sel[j]))} : j \in 1..Len(sel)}
SelBefore(u, t) == u[1] < t[1] \/ (u[1] = t[1] /\ u[2] < t[2])
SelPlace(t, wb, sel) ==
    Cardinality({u \in SelPositions(wb, sel) : SelBefore(u, t)}) + 1

\* `outRow` is the source row `row` with the provenance column added.
CarriesRow(outRow, row) ==
    /\ KeySet(outRow) = KeySet(row) \cup {SOURCE_COLUMN_NAME}
    /\ \A k \in KeySet(row) \ {SOURCE_COLUMN_NAME} : Get(outRow, k) = Get(row, k)

\* C1: every row returned by cross-file merge and by cross-sheet merge
\* carries, in the provenance column, the non-null name of the sheet that
\* produced it, whatever columns the source row has.
C1_ProvenanceIsSheetName ==
    [][MergeReturns =>
        IF pMode = "files"
        THEN \A t \in Positions(pFiles) :
                Get(ReturnedRows[Place(t, pFiles)], SOURCE_COLUMN_NAME)
                    = Str(pFiles[t[1]].sheets[t[2]].name)
        ELSE \A t \in SelPositions(pFiles[1].sheets, pSel) :
                Get(ReturnedRows[SelPlace(t, pFiles[1].sheets, pSel)],
                    SOURCE_COLUMN_NAME) = Str(pSel[t[1]])
    ]_vars

\* C2: when every file decodes, the table cross-file merge returns is the
\* flattening (file order) x (sheet order) x (row order): as many rows as
\* the sheets of the files have together, each source row at its place.
C2_FlatteningInOrder ==
    [][(MergeReturns /\ pMode = "files") =>
        /\ Len(ReturnedRows) = Cardinality(Positions(pFiles))
        /\ \A t \in Positions(pFiles) :
              CarriesRow(ReturnedRows[Place(t, pFiles)],
                         pFiles[t[1]].sheets[t[2]].rows[t[3]])
    ]_vars

\* A merge of three files, the second of them with an empty sheet between
\* two sheets with rows and the third without rows, has returned the five
\* rows in order.
C2_Witness ==
    /\ last = "mergeOk"
    /\ mergeMode = "files"
    /\ files = <<F2, F1, F3>>
    /\ ~mergedData.null
    /\ Len(mergedData.rows) = 5
    /\ Get(mergedData.rows[3], "B") = Num(2)
    /\ Get(mergedData.rows[5], "1") = Num(8)

\* C3: when the decoding of file K fails, the merge ends with the one error
\* that names file K, nothing is stored as the Merged Table, only the reads
\* of files 1..K were ever started and none is in flight afterwards.
C3_AbortOnFailingFile ==
    [][(MergeFails /\ pMode = "files") =>
        /\ error' = Msg("Khong the xu ly file: " \o pFiles[pIdx].name)
        /\ mergedData' = NoTable
        /\ reads = [i \in 1..pIdx |-> i]
        /\ mpc' = "idle" /\ reads' = <<>>
    ]_vars

\* The second of three files failed after the first had yielded rows.
C3_Witness ==
    /\ last = "mergeFailed"
    /\ mergeMode = "files"
    /\ files = <<F1, F2, F3>>
    /\ error = Msg("Khong the xu ly file: tagged.xlsx")
    /\ mergedData = NoTable
    /\ mpc = "idle"

----------------------------------------------------------------------------
(* Properties of the session *)

\* C6: every row of the Merged Table has an explicit value for every column
\* of the Header Set (null where its own sheet had no such column), so that
\* the preview shows the empty string there.
C6_EveryHeaderPresentInEveryRow ==
    ~mergedData.null =>
        LET headers == getHeadersFromData(mergedData.rows)
            shown == DataTable(mergedData.rows, headers)
        IN \A r \in 1..Len(shown), c \in 1..Len(headers) :
              /\ HasKey(mergedData.rows[r], headers[c])
              /\ shown[r][c] # "undefined"

\* C8: handleMerge clears the Merged Table before any read is started and
\* it stays null while the merge runs; a merge that ends in a failed decode
\* or without rows leaves the table null and an error message set; the
\* table is never an empty sequence.
C8_ClearThenAttempt ==
    /\ [](mpc = "reading" => mergedData = NoTable)
    /\ [](mergedData.null \/ Len(mergedData.rows) > 0)
    /\ [][(mpc = "reading" /\ last' \in {"mergeFailed", "mergeEmpty"}) =>
            (mergedData' = NoTable /\ error' # NoError)]_vars

\* A merge that started with a table in place has failed.
C8_Witness ==
    /\ last = "mergeFailed"
    /\ hadTable
    /\ mergedData = NoTable
    /\ error # NoError

\* The step that is an invocation of handleMerge.
MergeInvoked == mpc = "idle" /\ last' \in {"mergeStart", "mergeEmptySelection"}

\* C9: handleMerge in 'sheets' mode with no sheet selected ends in the
\* empty-selection error, with no read started and no Merged Table.
C9_EmptySelectionBeforeDecode ==
    [][(MergeInvoked /\ mergeMode = "sheets"
            /\ \A i \in 1..Len(singleFileSheets) : ~singleFileSheets[i].selected) =>
        /\ error' = ErrEmptySelection
        /\ mergedData' = NoTable
        /\ mpc' = "idle" /\ reads' = <<>>
        /\ xpc' = "idle"
        /\ ~isLoading'
    ]_vars

\* handleMerge has just ended in the empty-selection error.
C9_Witness ==
    /\ last = "mergeEmptySelection"
    /\ mergeMode = "sheets"
    /\ Len(files) = 1
    /\ error = ErrEmptySelection
    /\ mergedData = NoTable
    /\ mpc = "idle" /\ xpc = "idle"

\* C10: once handleModeChange has run there is no Merged Table until a
\* merge is started after it.
C10_NoTableAfterModeChange == modeChanged => mergedData = NoTable

\* The steps on which a merge or a sheet-name discovery ends.
EndingSteps == {"mergeOk", "mergeEmpty", "mergeFailed", "mergeEmptySelection",
                "extractOk", "extractFailed"}

\* C11: every merge and every sheet-name discovery that was started ends,
\* and on the step it ends (rows stored, decode failed, no rows, no sheet
\* selected, names listed, file unreadable) the loading flag is false.
C11_LoadingEnds ==
    /\ (mpc = "reading") ~> (mpc = "idle" /\ ~isLoading)
    /\ (xpc = "reading") ~> (xpc = "idle" /\ ~isLoading)
    /\ [][last' \in EndingSteps => ~isLoading']_vars

\* A sheet-name discovery has ended and the merge started after it has
\* ended in a failed decode: nothing is in flight and the flag is false.
C11_Witness ==
    /\ last = "mergeFailed"
    /\ mergeMode = "sheets"
    /\ Len(singleFileSheets) > 0
    /\ mpc = "idle" /\ xpc = "idle"
    /\ ~isLoading

----------------------------------------------------------------------------
(* The pure parts invoked directly: getHeadersFromData on any rows,        *)
(* processSheetsInFile (after its one await) on any selection, and the     *)
(* export of a merged table followed by a cross-file merge of the exported *)
(* file.                                                                   *)

HdrKeys == {SOURCE_COLUMN_NAME, "A", "B", "1"}
ValueOf(k) == IF k = "B" THEN NULL ELSE Num(1)

\* The object built by assigning the keys in the given order.
RECURSIVE MakeRow(_, _)
MakeRow(acc, ks) ==
    IF ks = <<>> THEN acc
    ELSE MakeRow(Put(acc, Head(ks), ValueOf(Head(ks))), Tail(ks))

RowShapes == {MakeRow(<<>>, ks) : ks \in SeqsUpTo(HdrKeys, MaxRowKeys)}

InitFn ==
    /\ AppInit
    /\ fnpc = "call"
    /\ \/ /\ fn = "getHeadersFromData"
          /\ argRows \in SeqsUpTo(RowShapes, MaxHdrRows)
          /\ argWb = <<>> /\ argSel = <<>> /\ argFiles = <<>>
       \/ /\ fn = "processSheetsInFile"
          /\ argWb \in {f.sheets : f \in Catalogue}
          /\ argSel \in SeqsUpTo(SheetNameUniverse, MaxSel)
          /\ argRows = <<>> /\ argFiles = <<>>
       \/ /\ fn = "roundTrip"
          /\ argFiles \in SeqsUpTo(Catalogue, MaxFiles)
          /\ argRows = <<>> /\ argWb = <<>> /\ argSel = <<>>
    /\ table = <<>> /\ exported = NoFile /\ out = <<>>

CallGetHeaders ==
    /\ fn = "getHeadersFromData" /\ fnpc = "call"
    /\ out' = getHeadersFromData(argRows)
    /\ fnpc' = "ret"
    /\ UNCHANGED <<appVars, fn, argRows, argWb, argSel, argFiles, table, exported>>

\* processSheetsInFile once the read has resolved and the file is decoded.
CallProcessSheets ==
    /\ fn = "processSheetsInFile" /\ fnpc = "call"
    /\ out' = SelectedRows(argWb, argSel)
    /\ fnpc' = "ret"
    /\ UNCHANGED <<appVars, fn, argRows, argWb, argSel, argFiles, table, exported>>

\* processMultipleFiles(files), every file decoding.
RoundTripMerge ==
    /\ fn = "roundTrip" /\ fnpc = "call"
    /\ table' = ProcessFilesOk(argFiles)
    /\ fnpc' = "merged"
    /\ UNCHANGED <<appVars, fn, argRows, argWb, argSel, argFiles, exported, out>>

\* handleDownload: if (mergedData && mergedData.length > 0) exportToExcel(...)
RoundTripExport ==
    /\ fn = "roundTrip" /\ fnpc = "merged"
    /\ Len(table) > 0
    /\ exported' = exportToExcel(table, "DuLieuGop")
    /\ fnpc' = "exported"
    /\ UNCHANGED <<appVars, fn, argRows, argWb, argSel, argFiles, table, out>>

\* processMultipleFiles([the exported file])
RoundTripImport ==
    /\ fn = "roundTrip" /\ fnpc = "exported"
    /\ out' = ProcessFilesOk(<<exported>>)
    /\ fnpc' = "ret"
    /\ UNCHANGED <<appVars, fn, argRows, argWb, argSel, argFiles, table, exported>>

NextFn ==
    \/ CallGetHeaders
    \/ CallProcessSheets
    \/ RoundTripMerge
    \/ RoundTripExport
    \/ RoundTripImport

SpecFn == InitFn /\ [][NextFn]_vars

----------------------------------------------------------------------------
(* Properties of the pure parts *)

\* C4: processSheetsInFile emits the rows of the selected sheets in the
\* order of selectedSheetNames, each sheet's rows in row order; a name the
\* file does not have is skipped and changes nothing for the others.
C4_SelectionOrder ==
    (fn = "processSheetsInFile" /\ fnpc = "ret") =>
        /\ Len(out) = Cardinality(SelPositions(argWb, argSel))
        /\ \A t \in SelPositions(argWb, argSel) :
              CarriesRow(out[SelPlace(t, argWb, argSel)],
                         SelRows(argWb, argSel[t[1]])[t[2]])

\* [Mar, Nope, Jan] selected from the file with sheets [Jan, Feb, Mar]:
\* Mar's two rows, then Jan's one.
C4_Witness ==
    /\ fn = "processSheetsInFile" /\ fnpc = "ret"
    /\ argWb = F1.sheets
    /\ argSel = <<"Mar", "Nope", "Jan">>
    /\ Len(out) = 3
    /\ Get(out[1], "1") = Num(6)
    /\ Get(out[3], "A") = Num(1)

\* Where a key is first seen in the row scan: <<row, index among its keys>>.
FirstSeen(h, data) ==
    LET r == CHOOSE i \in 1..Len(data) :
                /\ HasKey(data[i], h)
                /\ \A j \in 1..(i - 1) : ~HasKey(data[j], h)
        k == CHOOSE i \in 1..Len(data[r]) : data[r][i][1] = h
    IN <<r, k>>

\* C5: the headers are the keys of the rows, each once; the provenance
\* column, if a key, is first; the others are in first-seen order; no rows,
\* no headers.
C5_HeaderSet ==
    (fn = "getHeadersFromData" /\ fnpc = "ret") =>
        LET keys == UNION {KeySet(argRows[i]) : i \in 1..Len(argRows)}
            rest == keys \ {SOURCE_COLUMN_NAME}
            At(h) == CHOOSE i \in 1..Len(out) : out[i] = h
        IN /\ {out[i] : i \in 1..Len(out)} = keys
           /\ Len(out) = Cardinality(keys)
           /\ SOURCE_COLUMN_NAME \in keys => out[1] = SOURCE_COLUMN_NAME
           /\ \A g \in rest, h \in rest :
                 SelBefore(FirstSeen(g, argRows), FirstSeen(h, argRows))
                    => At(g) < At(h)
           /\ argRows = <<>> => out = <<>>

\* The provenance column is first seen in the second row, after two other
\* keys, one of them integer-like; "A" is in both rows.
C5_Witness ==
    /\ fn = "getHeadersFromData" /\ fnpc = "ret"
    /\ Len(argRows) = 2
    /\ Keys(argRows[1]) = <<"1", "A">>
    /\ Keys(argRows[2]) = <<"A", SOURCE_COLUMN_NAME>>
    /\ out = <<SOURCE_COLUMN_NAME, "1", "A">>

\* C7: the merged table exported and merged again from the exported file
\* alone gives the original rows, in order, each with the provenance
\* column set to 'MergedData'.
C7_RoundTrip ==
    (fn = "roundTrip" /\ fnpc = "ret") =>
        /\ Len(out) = Len(table)
        /\ \A i \in 1..Len(table) :
              /\ i <= Len(out)
              /\ Get(out[i], SOURCE_COLUMN_NAME) = Str("MergedData")
              /\ \A k \in KeySet(table[i]) \ {SOURCE_COLUMN_NAME} :
                    Get(out[i], k) = Get(table[i], k)

====
